---- MODULE Spec2Model ----
(***************************************************************************)
(* Embedding server of base-chat: the vector store (pgvector tables, the   *)
(* table registry, upsert and similarity search) and the batch             *)
(* orchestrator (job records in Redis, the Celery task that embeds and     *)
(* stores each document).                                                  *)
(***************************************************************************)
EXTENDS Integers, Sequences, FiniteSets, TLC

VARIABLES
    tables,         \* relation name -> set of rows, for every existing embedding-shaped table
    hasRegistry,    \* whether relation table_metadata exists
    registry,       \* rows of table_metadata: [table_id, table_name]
    current_table,  \* VectorStoreService.current_table (Unset until switch_table assigns it)
    clock,          \* database clock: NOW() of the latest transaction
    nextId,         \* number of uuid4() values drawn so far
    lastStore,      \* the latest store / batch_store call: arguments, outcome, table before it
    lastSearch,     \* the latest search call: arguments and the rows it returned
    lastTable,      \* the latest table-management call: name, outcome, state before it
    jobs,           \* Redis: job id -> the fields of hash batch_job:<id>
    documents,      \* broker: job id -> the documents argument of its task
    task,           \* Celery result backend: job id -> state and result of its task
    worker,         \* job id -> the loop variables of _process_documents_async
    revoked,        \* job ids whose revoke request is on its way to the workers
    observed,       \* job id -> what get_job_status returned last, and what it has returned
    trail,          \* job id -> which documents the worker attempted, which raised
    utc,            \* datetime.utcnow() of the API process
    lastCall,       \* the latest chunk_text, chunk_documents, list_jobs or cancel_job
                    \* call: arguments and what it returned
    init,           \* the initialize_database() calls in progress, one per process:
                    \* the statement each is at, what its lookup saw, how calls ended
    svc             \* one VectorStoreService instance under concurrent calls: self.pool,
                    \* the pools created, and per coroutine the method it runs, where
                    \* it is and the connections it holds

storeVars == <<tables, hasRegistry, registry, current_table, clock, nextId,
               lastStore, lastSearch, lastTable>>
jobVars == <<jobs, documents, task, worker, revoked, observed, trail, utc, lastCall, init, svc>>
vars == <<storeVars, jobVars>>

(***************************************************************************)
(* Bounds of the model.                                                    *)
(***************************************************************************)
MaxClock == 3
MaxBatch == 2
MaxTopK == 2
MaxUuid == 5
MaxDocs == 3
MaxSize == 2

(***************************************************************************)
(* Strings whose characters the code inspects are sequences of characters. *)
(***************************************************************************)
LowerLetters == <<"a","b","c","d","e","f","g","h","i","j","k","l","m",
                  "n","o","p","q","r","s","t","u","v","w","x","y","z">>
UpperLetters == <<"A","B","C","D","E","F","G","H","I","J","K","L","M",
                  "N","O","P","Q","R","S","T","U","V","W","X","Y","Z">>
Letters == { LowerLetters[i] : i \in 1..26 } \cup { UpperLetters[i] : i \in 1..26 }
UpperSet == { UpperLetters[i] : i \in 1..26 }
ToLower == [c \in UpperSet |-> LowerLetters[CHOOSE i \in 1..26 : UpperLetters[i] = c]]

IsLetter(c) == c \in Letters
IsDigit(c) == c \in {"0","1","2","3","4","5","6","7","8","9"}

\* str.lower() on one character, and on a string
LowerChar(c) == IF c \in UpperSet THEN ToLower[c] ELSE c
Lower(s) == [i \in 1..Len(s) |-> LowerChar(s[i])]

Embeddings == <<"e","m","b","e","d","d","i","n","g","s">>
TableMetadata == <<"t","a","b","l","e","_","m","e","t","a","d","a","t","a">>
Unset == <<>>

ReservedWords ==
    { <<"s","e","l","e","c","t">>, <<"i","n","s","e","r","t">>, <<"u","p","d","a","t","e">>,
      <<"d","e","l","e","t","e">>, <<"d","r","o","p">>, <<"c","r","e","a","t","e">>,
      <<"a","l","t","e","r">>, <<"t","a","b","l","e">>, <<"i","n","d","e","x">>,
      <<"v","i","e","w">>, <<"s","c","h","e","m","a">>,
      <<"d","a","t","a","b","a","s","e">>, <<"u","s","e","r">>, <<"a","d","m","i","n">>,
      <<"r","o","o","t">>, <<"s","y","s","t","e","m">>,
      <<"i","n","f","o","r","m","a","t","i","o","n","_","s","c","h","e","m","a">>,
      <<"p","g","_">> }

\* the position where '$' of a Python pattern matches: the end of the string, or
\* just before a newline that ends the string
MatchEnd(s) == IF Len(s) >= 1 /\ s[Len(s)] = "\n" THEN Len(s) - 1 ELSE Len(s)

\* re.match(r'^[a-zA-Z_][a-zA-Z0-9_]*$', table_name) and not a reserved word
ValidateTableName(table_name) ==
    /\ MatchEnd(table_name) >= 1
    /\ IsLetter(table_name[1]) \/ table_name[1] = "_"
    /\ \A i \in 1..MatchEnd(table_name) :
          IsLetter(table_name[i]) \/ IsDigit(table_name[i]) \/ table_name[i] = "_"
    /\ Lower(table_name) \notin ReservedWords

\* the relation an f-string statement names with {table_name}: the newline is
\* white space to the parser and an unquoted identifier folds to lower case
Identifier(table_name) == Lower(SubSeq(table_name, 1, MatchEnd(table_name)))

\* the words of the reserved set that PostgreSQL does not take as a table name
SqlReserved ==
    { <<"s","e","l","e","c","t">>, <<"c","r","e","a","t","e">>, <<"t","a","b","l","e">>,
      <<"u","s","e","r">> }

(***************************************************************************)
(* Values.  A JSON object (metadata, filters) is a set of <<key, value>>   *)
(* pairs, or null.  The embedding column is vector(1536); the model keeps  *)
(* the dimension check and scales the dimension down to EmbeddingDim.      *)
(***************************************************************************)
EmbeddingDim == 2

Null == [isnull |-> TRUE, kv |-> {}]
Obj(pairs) == [isnull |-> FALSE, kv |-> pairs]

RECURSIVE DotFrom(_, _, _)
DotFrom(a, b, i) ==
    IF i > Len(a) \/ i > Len(b) THEN 0 ELSE a[i] * b[i] + DotFrom(a, b, i + 1)
Dot(a, b) == DotFrom(a, b, 1)

\* 1 - (embedding <=> query): the cosine similarity dot / sqrt(n2), kept exact as
\* the pair of its numerator and its squared denominator.
Similarity(embedding, query) ==
    [dot |-> Dot(embedding, query), n2 |-> Dot(embedding, embedding) * Dot(query, query)]

\* s > num/den, for den > 0
ScoreAbove(s, th) ==
    IF th.num >= 0
    THEN s.dot > 0 /\ th.den * th.den * s.dot * s.dot > th.num * th.num * s.n2
    ELSE s.dot >= 0 \/ th.den * th.den * s.dot * s.dot < th.num * th.num * s.n2

\* s < t
ScoreLess(s, t) ==
    IF s.dot < 0 /\ t.dot >= 0 THEN TRUE
    ELSE IF s.dot >= 0 /\ t.dot < 0 THEN FALSE
    ELSE IF s.dot >= 0 THEN s.dot * s.dot * t.n2 < t.dot * t.dot * s.n2
    ELSE s.dot * s.dot * t.n2 > t.dot * t.dot * s.n2

(***************************************************************************)
(* INSERT ... ON CONFLICT (document_id) DO UPDATE, on the rows of a table. *)
(***************************************************************************)
NewRow(document_id, content, embedding, metadata, now) ==
    [document_id |-> document_id, content |-> content, embedding |-> embedding,
     metadata |-> metadata, created_at |-> now, updated_at |-> now]

\* ON CONFLICT (document_id) DO NOTHING in place of DO UPDATE
UpsertDoNothing(rows, document_id, content, embedding, metadata, now) ==
    IF \E r \in rows : r.document_id = document_id
    THEN rows
    ELSE rows \cup {NewRow(document_id, content, embedding, metadata, now)}

Upsert(rows, document_id, content, embedding, metadata, now) ==
    IF \E r \in rows : r.document_id = document_id
    THEN { IF r.document_id = document_id
           THEN [r EXCEPT !.content = content, !.embedding = embedding,
                          !.metadata = metadata, !.updated_at = now]
           ELSE r : r \in rows }
    ELSE rows \cup {NewRow(document_id, content, embedding, metadata, now)}

\* the statement is rejected by the column types: vector(1536), NOT NULL
StatementFails(embedding) == Len(embedding) # EmbeddingDim

\* data["document_id"], data["content"], data["embedding"] raise KeyError on a
\* dict that lacks the key
LacksField(data) == data.missing # "none"

\* The loop of batch_store_embeddings inside conn.transaction(): the rows as the
\* statements leave them, and whether the loop ran to its end.
RECURSIVE BatchLoop(_, _, _, _)
BatchLoop(rows, embeddings_data, i, now) ==
    IF i > Len(embeddings_data) THEN [ok |-> TRUE, rows |-> rows]
    ELSE IF LacksField(embeddings_data[i]) \/ StatementFails(embeddings_data[i].embedding)
    THEN [ok |-> FALSE, rows |-> rows]
    ELSE BatchLoop(Upsert(rows, embeddings_data[i].document_id, embeddings_data[i].content,
                          embeddings_data[i].embedding, embeddings_data[i].metadata, now),
                   embeddings_data, i + 1, now)

\* the loop without conn.transaction(): every statement commits on its own
TransactionAutocommit(before, outcome) == outcome.rows

\* async with conn.transaction(): commit when the block ends, roll back when it raises
Transaction(before, outcome) == IF outcome.ok THEN outcome.rows ELSE before

(***************************************************************************)
(* search_similar: the WHERE clause, ORDER BY embedding <=> $1, LIMIT $3.  *)
(***************************************************************************)
\* the conjuncts joined with OR in place of AND
FilterSqlAny(metadata, filters) ==
    IF filters.isnull \/ filters.kv = {} THEN TRUE
    ELSE \E f \in filters.kv : ~metadata.isnull /\ f \in metadata.kv

\* "if filters:" adds one  metadata->>'key' = value  conjunct per item
FilterSql(metadata, filters) ==
    IF filters.isnull \/ filters.kv = {} THEN TRUE
    ELSE \A f \in filters.kv : ~metadata.isnull /\ f \in metadata.kv

WhereClause(row, query, similarity_threshold, filters) ==
    /\ ScoreAbove(Similarity(row.embedding, query), similarity_threshold)
    /\ FilterSql(row.metadata, filters)

\* ORDER BY similarity_score, ascending: the least similar rows first
OrderBySimilarityAsc(rows, query) ==
    { seq \in [1..Cardinality(rows) -> rows] :
        /\ \A i, j \in 1..Cardinality(rows) : i # j => seq[i] # seq[j]
        /\ \A i, j \in 1..Cardinality(rows) :
              i < j => ~ScoreLess(Similarity(seq[j].embedding, query),
                                  Similarity(seq[i].embedding, query)) }

\* ORDER BY embedding <=> $1: ascending distance, that is descending similarity;
\* rows at the same distance come in any order
OrderBy(rows, query) ==
    { seq \in [1..Cardinality(rows) -> rows] :
        /\ \A i, j \in 1..Cardinality(rows) : i # j => seq[i] # seq[j]
        /\ \A i, j \in 1..Cardinality(rows) :
              i < j => ~ScoreLess(Similarity(seq[i].embedding, query),
                                  Similarity(seq[j].embedding, query)) }

Limit(seq, top_k) == SubSeq(seq, 1, IF Len(seq) < top_k THEN Len(seq) ELSE top_k)

ResultRow(row, query) ==
    [document_id |-> row.document_id, content |-> row.content, metadata |-> row.metadata,
     similarity_score |-> Similarity(row.embedding, query)]

SearchResults(rows, query, top_k, similarity_threshold, filters) ==
    LET selected == { r \in rows : WhereClause(r, query, similarity_threshold, filters) }
    IN  { [i \in 1..Len(Limit(seq, top_k)) |-> ResultRow(seq[i], query)] :
            seq \in OrderBy(selected, query) }

(***************************************************************************)
(* Inputs of the vector-store operations.                                  *)
(***************************************************************************)
MetaA == Obj({<<"source", "a">>})
MetaB == Obj({<<"source", "b">>})
MetaAX == Obj({<<"source", "a">>, <<"kind", "x">>})

Arg(document_id, content, embedding, metadata) ==
    [missing |-> "none", document_id |-> document_id, content |-> content,
     embedding |-> embedding, metadata |-> metadata]

\* the calls of store: two contents for d1, rows at equal and at different
\* distances, a row without metadata, and an embedding of the wrong dimension
StoreArgs ==
    { Arg("d1", "c1", <<1, 0>>, MetaA),
      Arg("d1", "c2", <<-1, 1>>, MetaB),
      Arg("d2", "c1", <<1, 1>>, MetaAX),
      Arg("d2", "c2", <<1, 0>>, Null),
      Arg("d3", "c2", <<0, 1>>, MetaB),
      Arg("d3", "c1", <<1>>, MetaA) }

\* the items of a batch: some of those, and a dict without "document_id"
BatchArgs ==
    { a \in StoreArgs : a.document_id \in {"d1", "d3"} /\ (a.content = "c2" \/ Len(a.embedding) # EmbeddingDim) }
      \cup { [missing |-> "document_id", document_id |-> "", content |-> "c1",
               embedding |-> <<1, 0>>, metadata |-> MetaA] }

Batches == UNION { [1..n -> BatchArgs] : n \in 0..MaxBatch }

Queries == { <<1, 0>> }
Thresholds == { [num |-> -1, den |-> 2], [num |-> 0, den |-> 1], [num |-> 7, den |-> 10] }
Filters == { Null, Obj({}), MetaB, MetaAX }

NoCall == [kind |-> "none"]
\* the processes that call initialize_database() at their start: the API
\* application and a Celery task
Processes == {"api", "task"}
NoInit == [pc |-> [p \in Processes |-> "idle"], saw |-> [p \in Processes |-> FALSE],
           calls |-> [p \in Processes |-> 0], done |-> 0, raised |-> {}, first_id |-> 0]
\* the coroutines that call methods of the one instance, none begun yet:
\* self.pool is None (0), no pool created
Coroutines == 1..MaxSize
NoSvc == [pool |-> 0, created |-> 0,
          pc |-> [p \in Coroutines |-> "idle"], op |-> [p \in Coroutines |-> "none"],
          table_name |-> [p \in Coroutines |-> Unset], calls |-> 0,
          uses |-> [p \in Coroutines |-> 0], held |-> [p \in Coroutines |-> <<>>],
          exists |-> [p \in Coroutines |-> FALSE], seen |-> [p \in Coroutines |-> Unset],
          chain |-> <<>>]
NoStore == [kind |-> "none", recs |-> <<>>, ok |-> FALSE, before |-> {}]
NoSearch == [done |-> FALSE, ok |-> FALSE, query |-> <<>>, top_k |-> 0,
             threshold |-> [num |-> 0, den |-> 1], filters |-> Null, result |-> <<>>,
             earlier |-> <<>>]
NoTable == [op |-> "none", table_name |-> Unset, ok |-> FALSE, previous |-> Unset,
            table_id |-> 0,
            before |-> [tables |-> {}, registry |-> {}, current_table |-> Unset]]

(***************************************************************************)
(* The state after VectorStoreService() on a fresh database.               *)
(***************************************************************************)
StoreInit ==
    /\ tables = << >>
    /\ hasRegistry = FALSE
    /\ registry = {}
    /\ current_table = Unset
    /\ clock = 0
    /\ nextId = 0
    /\ lastStore = NoStore
    /\ lastSearch = NoSearch
    /\ lastTable = NoTable
    /\ jobs = << >>
    /\ documents = << >>
    /\ task = << >>
    /\ worker = << >>
    /\ revoked = {}
    /\ observed = << >>
    /\ trail = << >>
    /\ utc = 0
    /\ lastCall = NoCall
    /\ init = NoInit
    /\ svc = NoSvc

\* The state once the application has started: the factory has awaited
\* initialize_database() on the fresh database.
Started ==
    /\ tables = (Embeddings :> {})
    /\ hasRegistry = TRUE
    /\ registry = {[table_id |-> 1, table_name |-> Embeddings]}
    /\ current_table = Unset
    /\ clock = 0
    /\ nextId = 1
    /\ lastStore = NoStore
    /\ lastSearch = NoSearch
    /\ lastTable = NoTable
    /\ jobs = << >>
    /\ documents = << >>
    /\ task = << >>
    /\ worker = << >>
    /\ revoked = {}
    /\ observed = << >>
    /\ trail = << >>
    /\ utc = 0
    /\ lastCall = NoCall
    /\ init = NoInit
    /\ svc = NoSvc

TableExists(name) == name \in DOMAIN tables

\* what a table operation found when it was called
Before == [tables |-> DOMAIN tables, registry |-> registry, current_table |-> current_table]

\* initialize_database: CREATE TABLE IF NOT EXISTS embeddings and table_metadata,
\* INSERT the default registry row ON CONFLICT (table_name) DO NOTHING
InitializeDatabase ==
    /\ nextId < MaxUuid
    /\ tables' = IF TableExists(Embeddings) THEN tables ELSE (Embeddings :> {}) @@ tables
    /\ hasRegistry' = (hasRegistry \/ ~TableExists(TableMetadata))
    /\ registry' = IF ~hasRegistry' \/ \E e \in registry : e.table_name = Embeddings
                   THEN registry
                   ELSE registry \cup {[table_id |-> nextId + 1, table_name |-> Embeddings]}
    /\ nextId' = IF registry' = registry THEN nextId ELSE nextId + 1
    /\ lastTable' = [NoTable EXCEPT !.op = "initialize", !.ok = hasRegistry',
                                    !.before = Before]
    /\ lastStore' = NoStore
    /\ lastSearch' = NoSearch
    /\ UNCHANGED <<current_table, clock>>
    /\ UNCHANGED jobVars

\* store_embedding(document_id, content, embedding, metadata): the statement names
\* the relation embeddings
StoreEmbedding(document_id, content, embedding, metadata) ==
    /\ clock < MaxClock
    /\ LET now == clock + 1
           ok == TableExists(Embeddings) /\ ~StatementFails(embedding)
           before == IF TableExists(Embeddings) THEN tables[Embeddings] ELSE {}
       IN  /\ tables' = IF ok
                        THEN [tables EXCEPT ![Embeddings] =
                                Upsert(before, document_id, content, embedding, metadata, now)]
                        ELSE tables
           /\ lastStore' = [kind |-> "store",
                            recs |-> <<Arg(document_id, content, embedding, metadata)>>,
                            ok |-> ok, before |-> before]
    /\ clock' = clock + 1
    /\ lastSearch' = NoSearch
    /\ lastTable' = NoTable
    /\ UNCHANGED <<hasRegistry, registry, current_table, nextId>>
    /\ UNCHANGED jobVars

\* batch_store_embeddings(embeddings_data): every upsert inside one transaction
BatchStoreEmbeddings(embeddings_data) ==
    /\ clock < MaxClock
    /\ LET now == clock + 1
           before == IF TableExists(Embeddings) THEN tables[Embeddings] ELSE {}
           outcome == IF TableExists(Embeddings) \/ Len(embeddings_data) = 0
                      THEN BatchLoop(before, embeddings_data, 1, now)
                      ELSE [ok |-> FALSE, rows |-> before]
       IN  /\ tables' = IF TableExists(Embeddings)
                        THEN [tables EXCEPT ![Embeddings] = Transaction(before, outcome)]
                        ELSE tables
           /\ lastStore' = [kind |-> "batch", recs |-> embeddings_data,
                            ok |-> outcome.ok, before |-> before]
    /\ clock' = clock + 1
    /\ lastSearch' = NoSearch
    /\ lastTable' = NoTable
    /\ UNCHANGED <<hasRegistry, registry, current_table, nextId>>
    /\ UNCHANGED jobVars

\* search_similar(query_embedding, top_k, similarity_threshold, filters): the
\* statement selects FROM embeddings
\* the call before this one was a search with the same arguments; every other
\* operation in between would have cleared lastSearch, so the table is as it was.
\* lastSearch.earlier is what that call returned (this call's own result when
\* there was none)
SameCall(query_embedding, top_k, similarity_threshold, filters) ==
    /\ lastSearch.done /\ lastSearch.ok
    /\ lastSearch.query = query_embedding /\ lastSearch.top_k = top_k
    /\ lastSearch.threshold = similarity_threshold /\ lastSearch.filters = filters

SearchSimilar(query_embedding, top_k, similarity_threshold, filters) ==
    /\ \E result \in IF TableExists(Embeddings)
                     THEN SearchResults(tables[Embeddings], query_embedding, top_k,
                                        similarity_threshold, filters)
                     ELSE {<<>>} :
          lastSearch' = [done |-> TRUE, ok |-> TableExists(Embeddings),
                         query |-> query_embedding, top_k |-> top_k,
                         threshold |-> similarity_threshold, filters |-> filters,
                         result |-> result,
                         earlier |-> IF SameCall(query_embedding, top_k,
                                                 similarity_threshold, filters)
                                     THEN lastSearch.result ELSE result]
    /\ lastStore' = NoStore
    /\ lastTable' = NoTable
    /\ UNCHANGED <<tables, hasRegistry, registry, current_table, clock, nextId>>
    /\ UNCHANGED jobVars

(***************************************************************************)
(* Table management.  An unquoted identifier in DDL is folded to lower     *)
(* case; information_schema.tables is searched for the name as given.      *)
(***************************************************************************)
T1 == <<"t", "1">>
Bad1a == <<"1", "a">>
TableNames == { Embeddings, T1, Bad1a, TableMetadata }

\* SELECT EXISTS (SELECT FROM information_schema.tables WHERE table_name = $1)
RelationExists(table_name) ==
    TableExists(table_name) \/ (hasRegistry /\ table_name = TableMetadata)

\* create_embedding_table(table_name): validate, check existence, CREATE TABLE and
\* its indexes, INSERT the registry row; each statement commits on its own
CreateEmbeddingTable(table_name) ==
    /\ nextId < MaxUuid
    /\ LET valid == ValidateTableName(table_name)
           free == ~RelationExists(table_name)
           relation == Identifier(table_name)
           created == valid /\ free /\ relation \notin SqlReserved /\ ~RelationExists(relation)
           indexed == created /\ MatchEnd(table_name) = Len(table_name)
           registered == indexed /\ hasRegistry
                         /\ ~\E e \in registry : e.table_name = table_name
       IN  /\ tables' = IF created THEN (relation :> {}) @@ tables ELSE tables
           /\ registry' = IF registered
                          THEN registry \cup {[table_id |-> nextId + 1,
                                               table_name |-> table_name]}
                          ELSE registry
           /\ nextId' = IF indexed THEN nextId + 1 ELSE nextId
           /\ lastTable' = [op |-> "create", table_name |-> table_name, ok |-> registered,
                            previous |-> Unset,
                            table_id |-> IF registered THEN nextId + 1 ELSE 0,
                            before |-> Before]
    /\ lastStore' = NoStore
    /\ lastSearch' = NoSearch
    /\ UNCHANGED <<hasRegistry, current_table, clock>>
    /\ UNCHANGED jobVars

\* delete_embedding_table(table_name): validate, check existence, DROP TABLE IF
\* EXISTS, DELETE the registry row; each statement commits on its own
DeleteEmbeddingTable(table_name) ==
    /\ LET found == ValidateTableName(table_name) /\ RelationExists(table_name)
           dropsRegistry == found /\ Lower(table_name) = TableMetadata
       IN  /\ tables' = IF found
                        THEN [t \in DOMAIN tables \ {Lower(table_name)} |-> tables[t]]
                        ELSE tables
           /\ hasRegistry' = IF dropsRegistry THEN FALSE ELSE hasRegistry
           /\ registry' = IF dropsRegistry THEN {}
                          ELSE IF found
                          THEN { e \in registry : e.table_name # table_name }
                          ELSE registry
           /\ lastTable' = [op |-> "delete", table_name |-> table_name,
                            ok |-> found /\ ~dropsRegistry,
                            previous |-> Unset, table_id |-> 0, before |-> Before]
    /\ lastStore' = NoStore
    /\ lastSearch' = NoSearch
    /\ UNCHANGED <<current_table, clock, nextId>>
    /\ UNCHANGED jobVars

\* switch_table(table_name): validate, check existence, then
\* previous = getattr(self, 'current_table', 'embeddings'); self.current_table = table_name
SwitchTable(table_name) ==
    /\ LET found == ValidateTableName(table_name) /\ RelationExists(table_name)
       IN  /\ current_table' = IF found THEN table_name ELSE current_table
           /\ lastTable' = [op |-> "switch", table_name |-> table_name, ok |-> found,
                            previous |-> IF ~found THEN Unset
                                         ELSE IF current_table = Unset THEN Embeddings
                                         ELSE current_table,
                            table_id |-> 0, before |-> Before]
    /\ lastStore' = NoStore
    /\ lastSearch' = NoSearch
    /\ UNCHANGED <<tables, hasRegistry, registry, clock, nextId>>
    /\ UNCHANGED jobVars




NextStore ==
    \/ (\E a \in StoreArgs : StoreEmbedding(a.document_id, a.content, a.embedding, a.metadata))
    \/ (\E b \in Batches : BatchStoreEmbeddings(b))
SpecStore == Started /\ [][NextStore]_vars

NextSearch ==
    \/ (\E a \in StoreArgs : StoreEmbedding(a.document_id, a.content, a.embedding, a.metadata))
    \/ (\E q \in Queries, k \in 1..MaxTopK, th \in Thresholds, f \in Filters :
           SearchSimilar(q, k, th, f))
SpecSearch == Started /\ [][NextSearch]_vars

(***************************************************************************)
(* The batch orchestrator: BatchService over Redis and Celery, and the     *)
(* task process_document_batch.                                            *)
(***************************************************************************)
Uuid4(n) == <<"u1", "u2", "u3", "u4", "u5", "u6", "u7", "u8">>[n]

\* the Embedding Provider, a function of the text
EmbeddingOf(content) == IF content = "c1" THEN <<1, 0>> ELSE <<0, 1>>

Doc(has_id, id, content) == [has_id |-> has_id, id |-> id, content |-> content]
DocLists ==
    UNION { [1..n -> { Doc(TRUE, "d1", "c1"), Doc(TRUE, "d2", ""), Doc(FALSE, "", "c1") }] :
            n \in 0..MaxDocs }

ReadyStates == {"SUCCESS", "FAILURE", "REVOKED"}
TerminalStatuses == {"completed", "failed", "cancelled"}

NoResult == [kind |-> "none", status |-> "", total_documents |-> 0, processed |-> 0,
             failed |-> 0, errors |-> <<>>, exc |-> ""]
Raised(exc) == [NoResult EXCEPT !.kind = "exception", !.exc = exc]
NoMeta == [current |-> 0, processed |-> 0, failed |-> 0]
NotObserved == [seen |-> FALSE, status |-> "", celery_status |-> "", processed |-> 0,
                failed |-> 0, first |-> "", sawCancelled |-> FALSE]

\* create_batch_job(documents): hset the pending record, delay() the task, hset
\* its celery_task_id
CreateBatchJob(docs) ==
    /\ nextId < MaxUuid
    /\ LET batch_id == Uuid4(nextId + 1)
       IN  /\ jobs' = (batch_id :> [status |-> "pending", total_documents |-> Len(docs),
                                    processed |-> 0, failed |-> 0, created_at |-> utc + 1,
                                    has_task |-> TRUE]) @@ jobs
           /\ documents' = (batch_id :> docs) @@ documents
           /\ task' = (batch_id :> [state |-> "PENDING", result |-> NoResult,
                                    meta |-> NoMeta]) @@ task
           /\ worker' = (batch_id :> [i |-> 0, processed_count |-> 0, failed_count |-> 0,
                                      errors |-> <<>>]) @@ worker
           /\ observed' = (batch_id :> NotObserved) @@ observed
           /\ trail' = (batch_id :> [attempted |-> {}, raised |-> {},
                                     cancelledEarly |-> FALSE, order |-> <<>>,
                                     updates |-> <<>>, wrote |-> {},
                                     deliveries |-> 1]) @@ trail
    /\ nextId' = nextId + 1
    /\ utc' = utc + 1
    /\ UNCHANGED <<tables, hasRegistry, registry, current_table, clock,
                   lastStore, lastSearch, lastTable, revoked>>
    /\ lastCall' = NoCall
    /\ UNCHANGED <<init, svc>>

\* a worker takes the task from the queue (task_track_started)
WorkerStart(j) ==
    /\ task[j].state = "PENDING"
    /\ task' = [task EXCEPT ![j].state = "STARTED"]
    /\ UNCHANGED <<storeVars, jobs, documents, worker, revoked, observed, trail, utc>>
    /\ lastCall' = NoCall
    /\ UNCHANGED <<init, svc>>

\* _process_documents_async up to the loop: initialize_database(), then
\* update_state(PROGRESS, current = 0)
WorkerInit(j) ==
    /\ task[j].state = "STARTED"
    /\ nextId < MaxUuid
    /\ tables' = IF TableExists(Embeddings) THEN tables ELSE (Embeddings :> {}) @@ tables
    /\ hasRegistry' = TRUE
    /\ registry' = IF \E e \in registry : e.table_name = Embeddings
                   THEN registry
                   ELSE registry \cup {[table_id |-> nextId + 1, table_name |-> Embeddings]}
    /\ nextId' = IF \E e \in registry : e.table_name = Embeddings THEN nextId ELSE nextId + 1
    /\ task' = [task EXCEPT ![j].state = "PROGRESS", ![j].meta = NoMeta]
    /\ worker' = [worker EXCEPT ![j] = [i |-> 1, processed_count |-> 0, failed_count |-> 0,
                                        errors |-> <<>>]]
    /\ UNCHANGED <<current_table, clock, lastStore, lastSearch, lastTable,
                   jobs, documents, revoked, observed, trail, utc>>
    /\ lastCall' = NoCall
    /\ UNCHANGED <<init, svc>>

\* initialize_database() raises: process_document_batch's handler runs
\* update_state(FAILURE) and re-raises, and Celery records the exception
WorkerInitFails(j) ==
    /\ task[j].state = "STARTED"
    /\ task' = [task EXCEPT ![j].state = "FAILURE", ![j].result = Raised("DatabaseInitError")]
    /\ UNCHANGED <<storeVars, jobs, documents, worker, revoked, observed, trail, utc>>
    /\ lastCall' = NoCall
    /\ UNCHANGED <<init, svc>>

\* what one pass of the loop body can do with a document
Outcomes(doc) ==
    IF doc.content = "" THEN {"skipped"}
    ELSE IF TableExists(Embeddings) THEN {"stored", "embed_raises", "store_raises"}
    ELSE {"embed_raises", "store_raises"}

\* the loop body "except Exception" replaced by letting the exception leave the task
DocumentAbortsTask(j, outcome) ==
    IF outcome \in {"embed_raises", "store_raises"}
    THEN [task EXCEPT ![j].state = "FAILURE",
                     ![j].result = Raised(IF outcome = "embed_raises" THEN "ProviderError"
                                          ELSE "StorageError")]
    ELSE IF outcome = "stored"
    THEN [task EXCEPT ![j].meta = [current |-> worker[j].i,
                                   processed |-> worker[j].processed_count + 1,
                                   failed |-> worker[j].failed_count]]
    ELSE task

\* a progress update that reports the documents still to come
DocumentTaskStateRemaining(j, outcome) ==
    IF outcome = "stored"
    THEN [task EXCEPT ![j].meta = [current |-> worker[j].i,
                                   processed |-> Len(documents[j]) - worker[j].i,
                                   failed |-> worker[j].failed_count]]
    ELSE task

\* the task's backend state after the loop body: update_state(PROGRESS) runs on the
\* success path only; an exception is caught and the loop continues
DocumentTaskState(j, outcome) ==
    IF outcome = "stored"
    THEN [task EXCEPT ![j].meta = [current |-> worker[j].i,
                                   processed |-> worker[j].processed_count + 1,
                                   failed |-> worker[j].failed_count]]
    ELSE task

\* one pass of "for i, doc in enumerate(documents)"
WorkerDocument(j, outcome) ==
    /\ task[j].state = "PROGRESS"
    /\ worker[j].i <= Len(documents[j])
    /\ outcome = "stored" => clock < MaxClock
    /\ documents[j][worker[j].i].has_id \/ nextId < MaxUuid
    /\ LET i == worker[j].i
           doc == documents[j][i]
           document_id == IF doc.has_id THEN doc.id ELSE Uuid4(nextId + 1)
       IN  /\ outcome \in Outcomes(doc)
           /\ tables' = IF outcome = "stored"
                        THEN [tables EXCEPT ![Embeddings] =
                                Upsert(tables[Embeddings], document_id, doc.content,
                                       EmbeddingOf(doc.content), Obj({}), clock + 1)]
                        ELSE tables
           /\ clock' = IF outcome = "stored" THEN clock + 1 ELSE clock
           /\ nextId' = IF doc.has_id THEN nextId ELSE nextId + 1
           /\ worker' = [worker EXCEPT
                ![j].i = i + 1,
                ![j].processed_count = IF outcome = "stored" THEN @ + 1 ELSE @,
                ![j].failed_count = IF outcome = "stored" THEN @ ELSE @ + 1,
                ![j].errors = IF outcome \in {"embed_raises", "store_raises"}
                              THEN Append(@, i) ELSE @]
           /\ task' = DocumentTaskState(j, outcome)
           /\ trail' = [trail EXCEPT
                ![j].attempted = IF outcome = "skipped" THEN @ ELSE @ \cup {i},
                ![j].raised = IF outcome \in {"embed_raises", "store_raises"}
                              THEN @ \cup {i} ELSE @,
                ![j].order = Append(@, i),
                ![j].updates = IF outcome = "stored" THEN Append(@, task'[j].meta) ELSE @,
                ![j].wrote = IF outcome = "stored" THEN @ \cup {<<i, document_id>>} ELSE @]
    /\ UNCHANGED <<hasRegistry, registry, current_table, lastStore, lastSearch, lastTable,
                   jobs, documents, revoked, observed, utc>>
    /\ lastCall' = NoCall
    /\ UNCHANGED <<init, svc>>

\* a result that counts as processed every document that left no error entry
FinalResultByErrors(j) ==
    [kind |-> "dict", status |-> "completed", total_documents |-> Len(documents[j]),
     processed |-> Len(documents[j]) - Len(worker[j].errors),
     failed |-> Len(worker[j].errors), errors |-> worker[j].errors, exc |-> ""]

\* the result dict built after the loop
FinalResult(j) ==
    [kind |-> "dict", status |-> "completed", total_documents |-> Len(documents[j]),
     processed |-> worker[j].processed_count, failed |-> worker[j].failed_count,
     errors |-> worker[j].errors, exc |-> ""]

\* the loop has ended: the task returns its result and Celery records SUCCESS
WorkerFinish(j) ==
    /\ task[j].state = "PROGRESS"
    /\ worker[j].i > Len(documents[j])
    /\ task' = [task EXCEPT ![j].state = "SUCCESS", ![j].result = FinalResult(j)]
    /\ UNCHANGED <<storeVars, jobs, documents, worker, revoked, observed, trail, utc>>
    /\ lastCall' = NoCall
    /\ UNCHANGED <<init, svc>>

\* task_time_limit: the worker process is killed and Celery records the failure
WorkerKilled(j) ==
    /\ task[j].state \in {"STARTED", "PROGRESS"}
    /\ task' = [task EXCEPT ![j].state = "FAILURE", ![j].result = Raised("TimeLimitExceeded")]
    /\ UNCHANGED <<storeVars, jobs, documents, worker, revoked, observed, trail, utc>>
    /\ lastCall' = NoCall
    /\ UNCHANGED <<init, svc>>

\* get_job_status: the Redis record, celery_status, and job_info.update(result)
\* when the task is ready() and its result is a dict
MergedStatus(j) ==
    IF jobs[j].has_task /\ task[j].state \in ReadyStates /\ task[j].result.kind = "dict"
    THEN [status |-> task[j].result.status, celery_status |-> task[j].state,
          processed |-> task[j].result.processed, failed |-> task[j].result.failed]
    ELSE [status |-> jobs[j].status, celery_status |-> task[j].state,
          processed |-> jobs[j].processed, failed |-> jobs[j].failed]

GetJobStatus(j) ==
    /\ j \in DOMAIN jobs
    /\ LET info == MergedStatus(j)
       IN  observed' = [observed EXCEPT ![j] =
              [seen |-> TRUE, status |-> info.status, celery_status |-> info.celery_status,
               processed |-> info.processed, failed |-> info.failed,
               first |-> IF @.first = "" /\ info.status \in TerminalStatuses
                         THEN info.status ELSE @.first,
               sawCancelled |-> @.sawCancelled \/ info.status = "cancelled"]]
    /\ UNCHANGED <<storeVars, jobs, documents, task, worker, revoked, trail, utc>>
    /\ lastCall' = NoCall
    /\ UNCHANGED <<init, svc>>

\* cancel_job: get_job_status, control.revoke(task id, terminate=True), hset
\* status cancelled
\* what may fail in it: the read of the record (Redis or the result backend),
\* the revoke broadcast, the write of the status
Faults == {"none", "get", "revoke", "hset"}
UnknownId == "u0"

\* the value of "return True" after the write and of "return False" in the handler
CancelReturnsTrue(wrote) == TRUE
CancelReturn(wrote) == wrote

CancelJob(batch_id, fault) ==
    /\ LET found == batch_id \in DOMAIN jobs /\ fault # "get"
           sent == found /\ jobs[batch_id].has_task /\ fault # "revoke"
           wrote == found /\ fault \notin {"revoke", "hset"}
       IN  /\ revoked' = IF sent THEN revoked \cup {batch_id} ELSE revoked
           /\ jobs' = IF wrote THEN [jobs EXCEPT ![batch_id].status = "cancelled"] ELSE jobs
           /\ trail' = IF wrote
                       THEN [trail EXCEPT ![batch_id].cancelledEarly =
                                            @ \/ task[batch_id].state = "PENDING"]
                       ELSE trail
           /\ lastCall' = [kind |-> "cancel_job", batch_id |-> batch_id, fault |-> fault,
                           result |-> CancelReturn(wrote), before |-> jobs]
    /\ UNCHANGED <<storeVars, documents, task, worker, observed, utc>>
    /\ UNCHANGED <<init, svc>>

\* the revoke request reaches the worker before the task has ended: a task not
\* yet started is discarded, a running one is terminated
RevokeTakesEffect(j) ==
    /\ j \in revoked
    /\ task[j].state \notin ReadyStates
    /\ task' = [task EXCEPT ![j].state = "REVOKED", ![j].result = Raised("TaskRevokedError")]
    /\ revoked' = revoked \ {j}
    /\ UNCHANGED <<storeVars, jobs, documents, worker, observed, trail, utc>>
    /\ lastCall' = NoCall
    /\ UNCHANGED <<init, svc>>

\* the broker delivers the message of a task again while it is being run or after
\* its worker was lost: process_document_batch starts over with the same arguments
MaxDeliveries == 2
Redelivered(j) ==
    /\ task[j].state \in {"PROGRESS", "FAILURE"}
    /\ trail[j].deliveries < MaxDeliveries
    /\ task' = [task EXCEPT ![j] = [state |-> "STARTED", result |-> NoResult, meta |-> NoMeta]]
    /\ worker' = [worker EXCEPT ![j] = [i |-> 0, processed_count |-> 0, failed_count |-> 0,
                                        errors |-> <<>>]]
    /\ trail' = [trail EXCEPT ![j].attempted = {}, ![j].raised = {}, ![j].order = <<>>,
                              ![j].updates = <<>>, ![j].deliveries = @ + 1]
    /\ UNCHANGED <<storeVars, jobs, documents, revoked, observed, utc>>
    /\ lastCall' = NoCall
    /\ UNCHANGED <<init, svc>>

\* the order in which KEYS batch_job:* hands out the keys: any order
KeyOrders == { ks \in [1..Cardinality(DOMAIN jobs) -> DOMAIN jobs] :
                 \A a, b \in DOMAIN ks : a # b => ks[a] # ks[b] }

\* keys[:limit]
FirstKeys(keys, limit) == SubSeq(keys, 1, IF limit < Len(keys) THEN limit ELSE Len(keys))

\* what list_jobs keeps of one job: get_job_status of it
JobEntry(j) == [id |-> j, created_at |-> jobs[j].created_at, status |-> MergedStatus(j).status]

\* the position a job takes in jobs.sort(key=created_at, reverse=True): after the
\* jobs created later, and after the jobs of equal time that stood before it
Rank(ks, i) ==
    1 + Cardinality({ k \in DOMAIN ks :
                        \/ jobs[ks[k]].created_at > jobs[ks[i]].created_at
                        \/ jobs[ks[k]].created_at = jobs[ks[i]].created_at /\ k < i })
SortNewestFirst(ks) ==
    [p \in DOMAIN ks |-> JobEntry(ks[CHOOSE i \in DOMAIN ks : Rank(ks, i) = p])]

\* list_jobs(limit): the first limit keys, get_job_status of each, sorted
MaxLimit == 2
ListJobs(limit) ==
    /\ \E keys \in KeyOrders :
          lastCall' = [kind |-> "list_jobs", limit |-> limit,
                       result |-> SortNewestFirst(FirstKeys(keys, limit))]
    /\ UNCHANGED <<storeVars, jobs, documents, task, worker, revoked, observed, trail, utc>>
    /\ UNCHANGED <<init, svc>>

(***************************************************************************)
(* TextChunker.  A text is a sequence of characters, a list of strings a   *)
(* sequence of such sequences.                                             *)
(***************************************************************************)
MaxText == 5
Chars == {"a", "b", " ", "\n", "\r"}
Whitespace == {" ", "\n", "\r", "\t"}
Texts == UNION { [1..n -> Chars] : n \in 0..MaxText }
\* TextChunker(max_chars, overlap_chars) as __init__ lets it be built
Chunkers ==
    { c \in [max_chars : 1..3, overlap_chars : 0..2] : c.overlap_chars < c.max_chars }

\* str.strip()
RECURSIVE LStrip(_)
LStrip(s) == IF s # <<>> /\ s[1] \in Whitespace THEN LStrip(Tail(s)) ELSE s
RECURSIVE RStrip(_)
RStrip(s) ==
    IF s # <<>> /\ s[Len(s)] \in Whitespace THEN RStrip(SubSeq(s, 1, Len(s) - 1)) ELSE s
Strip(s) == RStrip(LStrip(s))

\* sep.join(list)
RECURSIVE Join(_, _)
Join(list, sep) ==
    IF list = <<>> THEN <<>>
    ELSE IF Len(list) = 1 THEN list[1]
    ELSE list[1] \o sep \o Join(Tail(list), sep)

\* text.replace("\r\n", "\n").replace("\r", "\n")
RECURSIVE Normalize(_)
Normalize(s) ==
    IF s = <<>> THEN <<>>
    ELSE IF s[1] = "\r" /\ Len(s) >= 2 /\ s[2] = "\n" THEN <<"\n">> \o Normalize(Tail(Tail(s)))
    ELSE IF s[1] = "\r" THEN <<"\n">> \o Normalize(Tail(s))
    ELSE <<s[1]>> \o Normalize(Tail(s))

\* s.split("\n"), the line being read in cur
RECURSIVE SplitFrom(_, _)
SplitFrom(s, cur) ==
    IF s = <<>> THEN <<cur>>
    ELSE IF s[1] = "\n" THEN <<cur>> \o SplitFrom(Tail(s), <<>>)
    ELSE SplitFrom(Tail(s), Append(cur, s[1]))
SplitLines(s) == SplitFrom(s, <<>>)

\* the loop of _split_into_paragraphs over the lines, then the rest of the buffer
RECURSIVE ParagraphLoop(_, _, _)
ParagraphLoop(lines, buffer, parts) ==
    IF lines = <<>>
    THEN IF buffer # <<>> THEN Append(parts, Strip(Join(buffer, <<"\n">>))) ELSE parts
    ELSE IF Strip(lines[1]) = <<>>
    THEN IF buffer # <<>>
         THEN ParagraphLoop(Tail(lines), <<>>, Append(parts, Strip(Join(buffer, <<"\n">>))))
         ELSE ParagraphLoop(Tail(lines), buffer, parts)
    ELSE ParagraphLoop(Tail(lines), Append(buffer, lines[1]), parts)

SplitIntoParagraphs(text) ==
    SelectSeq(ParagraphLoop(SplitLines(Normalize(text)), <<>>, <<>>), LAMBDA p : p # <<>>)

RECURSIVE SplitHard(_, _)
SplitHard(paragraph, max_chars) ==
    IF paragraph = <<>> THEN <<>>
    ELSE IF Len(paragraph) <= max_chars THEN <<paragraph>>
    ELSE <<SubSeq(paragraph, 1, max_chars)>>
            \o SplitHard(SubSeq(paragraph, max_chars + 1, Len(paragraph)), max_chars)

\* previous_chunk[-overlap_chars:]
TailOverlap(previous_chunk, overlap_chars) ==
    IF overlap_chars = 0 \/ previous_chunk = <<>> THEN <<>>
    ELSE IF Len(previous_chunk) <= overlap_chars THEN previous_chunk
    ELSE SubSeq(previous_chunk, Len(previous_chunk) - overlap_chars + 1, Len(previous_chunk))

\* the pieces chunk_text appends one by one: a paragraph, or the hard parts of a
\* paragraph longer than max_chars
RECURSIVE Pieces(_, _)
Pieces(paragraphs, max_chars) ==
    IF paragraphs = <<>> THEN <<>>
    ELSE (IF Len(paragraphs[1]) > max_chars THEN SplitHard(paragraphs[1], max_chars)
          ELSE <<paragraphs[1]>>) \o Pieces(Tail(paragraphs), max_chars)

\* one piece: close the current chunk when the piece does not fit, start the next
\* one with the overlap, append the piece
AddPiece(st, piece, c) ==
    IF st.current_len + Len(piece) + 1 > c.max_chars /\ st.current # <<>>
    THEN LET closed == Join(st.current, <<"\n">>)
             overlap == TailOverlap(closed, c.overlap_chars)
         IN  [chunks |-> Append(st.chunks, closed),
              current |-> <<overlap, piece>>,
              current_len |-> Len(overlap) + Len(piece) + 1]
    ELSE [chunks |-> st.chunks,
          current |-> Append(st.current, piece),
          current_len |-> st.current_len + Len(piece) + 1]

RECURSIVE ChunkLoop(_, _, _)
ChunkLoop(pieces, st, c) ==
    IF pieces = <<>> THEN st ELSE ChunkLoop(Tail(pieces), AddPiece(st, pieces[1], c), c)

\* return [c.strip() for c in chunks if c is not None]
Stripped(chunks) == [i \in 1..Len(chunks) |-> Strip(chunks[i])]

\* chunk_text(text) of chunker c
ChunkText(c, text) ==
    IF text = <<>> THEN << <<>> >>
    ELSE LET st == ChunkLoop(Pieces(SplitIntoParagraphs(text), c.max_chars),
                             [chunks |-> <<>>, current |-> <<>>, current_len |-> 0], c)
             chunks == IF st.current # <<>>
                       THEN Append(st.chunks, Join(st.current, <<"\n">>))
                       ELSE st.chunks
         IN  Stripped(chunks)

\* a chunker and the argument of the call about to be made on it
ChunkTextArgs == [kind : {"text"}, chunker : Chunkers, text : Texts]

CallChunkText ==
    /\ lastCall.kind = "text"
    /\ lastCall' = [kind |-> "chunk_text", chunker |-> lastCall.chunker,
                    text |-> lastCall.text,
                    chunks |-> ChunkText(lastCall.chunker, lastCall.text)]
    /\ UNCHANGED <<storeVars, jobs, documents, task, worker, revoked, observed, trail, utc>>
    /\ UNCHANGED <<init, svc>>

\* parsed documents: content, metadata (a JSON object or None), source and
\* mime_type ("None" where the key is absent)
MaxParsed == 2
MetaChunk == Obj({<<"k", "v">>, <<"chunk_index", "x">>})
ParsedDocs ==
    [content : { <<>>, <<" ">>, <<"a", "b">>, <<"a", "b", " ", "a", "b">>,
                 <<"a", "a", "a", "a", "a">> },
     metadata : { Null, MetaA, MetaChunk },
     source : { "s.txt", "None" },
     mime_type : { "text/plain" }]
ParsedLists == UNION { [1..n -> ParsedDocs] : n \in 0..MaxParsed }

\* meta = dict(metadata or {}); meta.update({"chunk_index": idx, "num_chunks": total}):
\* kv holds the inherited items, the two items set by update stand beside them
EnrichOneBased(metadata, idx, total) ==
    [kv |-> { kv \in metadata.kv : kv[1] \notin {"chunk_index", "num_chunks"} },
     chunk_index |-> idx + 1, num_chunks |-> total]
Enrich(metadata, idx, total) ==
    [kv |-> { kv \in metadata.kv : kv[1] \notin {"chunk_index", "num_chunks"} },
     chunk_index |-> idx, num_chunks |-> total]

\* the inner loop of chunk_documents for one document
DocChunks(c, doc) ==
    LET chunks == ChunkText(c, doc.content)
    IN  [i \in 1..Len(chunks) |->
            [content |-> chunks[i],
             metadata |-> Enrich(doc.metadata, i - 1, Len(chunks)),
             source |-> doc.source,
             mime_type |-> doc.mime_type]]

RECURSIVE ChunkDocuments(_, _)
ChunkDocuments(c, docs) ==
    IF docs = <<>> THEN <<>> ELSE DocChunks(c, docs[1]) \o ChunkDocuments(c, Tail(docs))

ChunkDocumentsArgs == [kind : {"documents"}, chunker : Chunkers, documents : ParsedLists]

CallChunkDocuments ==
    /\ lastCall.kind = "documents"
    /\ lastCall' = [kind |-> "chunk_documents", chunker |-> lastCall.chunker,
                    documents |-> lastCall.documents,
                    chunked |-> ChunkDocuments(lastCall.chunker, lastCall.documents)]
    /\ UNCHANGED <<storeVars, jobs, documents, task, worker, revoked, observed, trail, utc>>
    /\ UNCHANGED <<init, svc>>

NextChunk ==
    \/ CallChunkText
    \/ CallChunkDocuments
\* a chunker built, and a text or a list of parsed documents at hand
ChunkInit ==
    /\ tables = (Embeddings :> {})
    /\ hasRegistry = TRUE
    /\ registry = {[table_id |-> 1, table_name |-> Embeddings]}
    /\ current_table = Unset
    /\ clock = 0
    /\ nextId = 1
    /\ lastStore = NoStore
    /\ lastSearch = NoSearch
    /\ lastTable = NoTable
    /\ jobs = << >>
    /\ documents = << >>
    /\ task = << >>
    /\ worker = << >>
    /\ revoked = {}
    /\ observed = << >>
    /\ trail = << >>
    /\ utc = 0
    /\ lastCall \in ChunkTextArgs \cup ChunkDocumentsArgs
    /\ init = NoInit
    /\ svc = NoSvc
SpecChunk == ChunkInit /\ [][NextChunk]_vars

\* one job is followed from its creation on
CreateOneJob == jobs = << >> /\ \E docs \in DocLists : CreateBatchJob(docs)

NextJob ==
    \/ CreateOneJob
    \/ (\E j \in DOMAIN jobs : WorkerStart(j))
    \/ (\E j \in DOMAIN jobs : WorkerInit(j))
    \/ (\E j \in DOMAIN jobs : WorkerInitFails(j))
    \/ (\E j \in DOMAIN jobs, outcome \in {"skipped", "stored", "embed_raises", "store_raises"} :
           WorkerDocument(j, outcome))
    \/ (\E j \in DOMAIN jobs : WorkerFinish(j))
    \/ (\E j \in DOMAIN jobs : WorkerKilled(j))
    \/ (\E j \in DOMAIN jobs : RevokeTakesEffect(j))
    \/ (\E j \in DOMAIN jobs : GetJobStatus(j))
    \/ (\E j \in DOMAIN jobs : CancelJob(j, "none"))
SpecJob == Started /\ [][NextJob]_vars

\* the data operations that accompany table management: two documents, one query
FewArgs == { a \in StoreArgs : a.content = "c1" /\ a.document_id \in {"d1", "d2"} }

NextTables ==
    \/ InitializeDatabase
    \/ (\E n \in TableNames : CreateEmbeddingTable(n))
    \/ (\E n \in TableNames : DeleteEmbeddingTable(n))
    \/ (\E n \in TableNames : SwitchTable(n))
    \/ (\E a \in FewArgs : StoreEmbedding(a.document_id, a.content, a.embedding, a.metadata))
    \/ (\E a \in FewArgs : BatchStoreEmbeddings(<<a>>))
    \/ (\E q \in Queries : SearchSimilar(q, 1, [num |-> 0, den |-> 1], Null))
SpecTables == StoreInit /\ [][NextTables]_vars

\* one job whose task may be delivered more than once
NextRetry ==
    \/ CreateOneJob
    \/ (\E j \in DOMAIN jobs : WorkerStart(j))
    \/ (\E j \in DOMAIN jobs : WorkerInit(j))
    \/ (\E j \in DOMAIN jobs, outcome \in {"skipped", "stored", "embed_raises", "store_raises"} :
           WorkerDocument(j, outcome))
    \/ (\E j \in DOMAIN jobs : WorkerFinish(j))
    \/ (\E j \in DOMAIN jobs : WorkerKilled(j))
    \/ (\E j \in DOMAIN jobs : Redelivered(j))
SpecRetry == Started /\ [][NextRetry]_vars

\* the client's calls on a few jobs without documents, the worker running them
MaxJobs == 2
CreateSomeJob == Cardinality(DOMAIN jobs) < MaxJobs /\ CreateBatchJob(<<>>)
NextClient ==
    \/ CreateSomeJob
    \/ (\E j \in DOMAIN jobs : WorkerStart(j))
    \/ (\E j \in DOMAIN jobs : WorkerInit(j))
    \/ (\E j \in DOMAIN jobs : WorkerFinish(j))
    \/ (\E j \in DOMAIN jobs : RevokeTakesEffect(j))
    \/ (\E j \in DOMAIN jobs \cup {UnknownId}, fault \in Faults : CancelJob(j, fault))
SpecClient == Started /\ [][NextClient]_vars

NextList ==
    \/ CreateSomeJob
    \/ (\E j \in DOMAIN jobs : WorkerStart(j))
    \/ (\E j \in DOMAIN jobs : WorkerInit(j))
    \/ (\E j \in DOMAIN jobs : WorkerFinish(j))
    \/ (\E j \in DOMAIN jobs : RevokeTakesEffect(j))
    \/ (\E j \in DOMAIN jobs : CancelJob(j, "none"))
    \/ (\E limit \in 1..MaxLimit : ListJobs(limit))
SpecList == Started /\ [][NextList]_vars

(***************************************************************************)
(* initialize_database() statement by statement, for processes that run it *)
(* at the same time on their own connections.  CREATE TABLE IF NOT EXISTS  *)
(* looks the name up and, when it is absent, enters the relation in the    *)
(* catalog; PostgreSQL does not make the two one atomic step, and the      *)
(* catalog's unique index rejects the second of two sessions that both     *)
(* found the name absent.  INSERT ... ON CONFLICT DO NOTHING is atomic.     *)
(* The extension and the indexes follow the pattern of the tables.         *)
(***************************************************************************)
MaxCalls == 2
callVars == <<jobs, documents, task, worker, revoked, observed, trail, utc, lastCall>>
Goto(p, pc) == [init EXCEPT !.pc[p] = pc]

InitCall(p) ==
    /\ init.pc[p] = "idle"
    /\ init.calls[p] < MaxCalls
    /\ init' = [init EXCEPT !.pc[p] = "look_embeddings", !.calls[p] = @ + 1]
    /\ UNCHANGED <<storeVars, callVars, svc>>

\* CREATE TABLE IF NOT EXISTS embeddings: the lookup
InitLookEmbeddings(p) ==
    /\ init.pc[p] = "look_embeddings"
    /\ init' = [init EXCEPT !.pc[p] = "create_embeddings", !.saw[p] = TableExists(Embeddings)]
    /\ UNCHANGED <<storeVars, callVars, svc>>

\* CREATE TABLE IF NOT EXISTS embeddings: skip, create, or fail on the catalog
InitCreateEmbeddings(p) ==
    /\ init.pc[p] = "create_embeddings"
    /\ tables' = IF TableExists(Embeddings) THEN tables ELSE (Embeddings :> {}) @@ tables
    /\ init' = IF ~init.saw[p] /\ TableExists(Embeddings)
               THEN [init EXCEPT !.pc[p] = "idle", !.raised = @ \cup {p}]
               ELSE Goto(p, "look_registry")
    /\ UNCHANGED <<hasRegistry, registry, current_table, clock, nextId,
                   lastStore, lastSearch, lastTable, callVars, svc>>

\* CREATE TABLE IF NOT EXISTS table_metadata: the lookup
InitLookRegistry(p) ==
    /\ init.pc[p] = "look_registry"
    /\ init' = [init EXCEPT !.pc[p] = "create_registry", !.saw[p] = hasRegistry]
    /\ UNCHANGED <<storeVars, callVars, svc>>

\* CREATE TABLE IF NOT EXISTS table_metadata: skip, create, or fail on the catalog
InitCreateRegistry(p) ==
    /\ init.pc[p] = "create_registry"
    /\ hasRegistry' = TRUE
    /\ init' = IF ~init.saw[p] /\ hasRegistry
               THEN [init EXCEPT !.pc[p] = "idle", !.raised = @ \cup {p}]
               ELSE Goto(p, "insert_default")
    /\ UNCHANGED <<tables, registry, current_table, clock, nextId,
                   lastStore, lastSearch, lastTable, callVars, svc>>

\* INSERT INTO table_metadata ... ON CONFLICT (table_name) DO NOTHING, and return
InitInsertDefault(p) ==
    /\ init.pc[p] = "insert_default"
    /\ nextId < MaxUuid
    /\ LET present == \E e \in registry : e.table_name = Embeddings
       IN  /\ registry' = IF present THEN registry
                          ELSE registry \cup {[table_id |-> nextId + 1,
                                               table_name |-> Embeddings]}
           /\ nextId' = IF present THEN nextId ELSE nextId + 1
           /\ init' = [init EXCEPT !.pc[p] = "idle", !.done = @ + 1,
                                   !.first_id = IF present THEN @ ELSE nextId + 1]
    /\ UNCHANGED <<tables, hasRegistry, current_table, clock,
                   lastStore, lastSearch, lastTable, callVars, svc>>

NextInit ==
    \/ (\E p \in Processes : InitCall(p))
    \/ (\E p \in Processes : InitLookEmbeddings(p))
    \/ (\E p \in Processes : InitCreateEmbeddings(p))
    \/ (\E p \in Processes : InitLookRegistry(p))
    \/ (\E p \in Processes : InitCreateRegistry(p))
    \/ (\E p \in Processes : InitInsertDefault(p))
SpecInit == StoreInit /\ [][NextInit]_vars

(***************************************************************************)
(* Concurrent calls on one VectorStoreService instance.  The coroutines    *)
(* run on one event loop: a step is the code between two awaits.  Every    *)
(* public method begins with  pool = await self._get_pool()  and           *)
(* async with pool.acquire() as conn.                                      *)
(***************************************************************************)
\* a coroutine calls health_check(), get_statistics() or switch_table(name);
\* switch_table raises ValueError for an invalid name before it touches the pool
SvcCall(p, op, name) ==
    /\ svc.pc[p] = "idle"
    /\ svc.calls <= MaxCalls
    /\ svc' = [svc EXCEPT !.calls = @ + 1, !.op[p] = op, !.table_name[p] = name,
                          !.pc[p] = IF op = "switch_table" /\ ~ValidateTableName(name)
                                    THEN "idle" ELSE "get_pool"]
    /\ UNCHANGED <<storeVars, callVars, init>>

\* _get_pool: "if self.pool is None" leads to the await of create_pool; otherwise
\* self.pool is returned as it is now
GetPool(p) ==
    /\ svc.pc[p] \in {"get_pool", "nested_get_pool"}
    /\ svc' = IF svc.pool = 0
              THEN [svc EXCEPT !.pc[p] = "create_pool"]
              ELSE [svc EXCEPT !.uses[p] = svc.pool,
                               !.pc[p] = IF svc.pc[p] = "get_pool" THEN "acquire"
                                         ELSE "nested_acquire"]
    /\ UNCHANGED <<storeVars, callVars, init>>

\* self.pool = await asyncpg.create_pool(...) completes: a new pool, assigned to
\* self.pool whatever it holds by now, and returned
CreatePool(p) ==
    /\ svc.pc[p] = "create_pool"
    /\ svc' = [svc EXCEPT !.created = @ + 1, !.pool = svc.created + 1,
                          !.uses[p] = svc.created + 1, !.pc[p] = "acquire"]
    /\ UNCHANGED <<storeVars, callVars, init>>

\* pool.acquire(): waits until the pool has a connection that is not checked out
Acquire(p) ==
    /\ svc.pc[p] \in {"acquire", "nested_acquire"}
    /\ Cardinality({ h \in Coroutines \X (1..2) :
                        /\ h[2] <= Len(svc.held[h[1]])
                        /\ svc.held[h[1]][h[2]] = svc.uses[p] }) < MaxSize
    /\ svc' = [svc EXCEPT !.held[p] = Append(@, svc.uses[p]),
                          !.pc[p] = IF svc.pc[p] = "acquire" THEN "body" ELSE "nested_body"]
    /\ UNCHANGED <<storeVars, callVars, init>>

\* get_statistics: its queries, then the connection goes back to its pool and the
\* method returns, to its caller health_check when that called it
GetStatistics(p) ==
    /\ \/ svc.pc[p] = "body" /\ svc.op[p] = "get_statistics"
       \/ svc.pc[p] = "nested_body"
    /\ svc' = [svc EXCEPT !.held[p] = SubSeq(@, 1, Len(@) - 1),
                          !.pc[p] = IF svc.pc[p] = "body" THEN "idle" ELSE "after_statistics"]
    /\ UNCHANGED <<storeVars, callVars, init>>

\* health_check: SELECT 1, then  stats = await self.get_statistics()  inside its own
\* "async with pool.acquire()"; after it the index query, release and return
HealthCheck(p) ==
    /\ svc.op[p] = "health_check"
    /\ \/ /\ svc.pc[p] = "body"
          /\ svc' = [svc EXCEPT !.pc[p] = "nested_get_pool"]
       \/ /\ svc.pc[p] = "after_statistics"
          /\ svc' = [svc EXCEPT !.held[p] = SubSeq(@, 1, Len(@) - 1), !.pc[p] = "idle"]
    /\ UNCHANGED <<storeVars, callVars, init>>

\* switch_table: exists = await conn.fetchval(... information_schema.tables ...)
SwitchLook(p) ==
    /\ svc.pc[p] = "body" /\ svc.op[p] = "switch_table"
    /\ svc' = [svc EXCEPT !.exists[p] = RelationExists(svc.table_name[p]),
                          !.seen[p] = current_table, !.pc[p] = "switch_set"]
    /\ UNCHANGED <<storeVars, callVars, init>>

\* the active table as the coroutine found it when it looked the name up
PreviousTableAtLookup(p) == IF svc.seen[p] = Unset THEN Embeddings ELSE svc.seen[p]

\* current_table = getattr(self, 'current_table', 'embeddings')
PreviousTable(p) == IF current_table = Unset THEN Embeddings ELSE current_table

\* switch_table after the lookup: raise when the table is absent; otherwise read
\* the previous table, assign self.current_table and return, with no await between
SwitchSet(p) ==
    /\ svc.pc[p] = "switch_set"
    /\ current_table' = IF svc.exists[p] THEN svc.table_name[p] ELSE current_table
    /\ svc' = [svc EXCEPT !.held[p] = SubSeq(@, 1, Len(@) - 1), !.pc[p] = "idle",
                          !.chain = IF svc.exists[p]
                                    THEN Append(@, [previous |-> PreviousTable(p),
                                                    current |-> svc.table_name[p]])
                                    ELSE @]
    /\ UNCHANGED <<tables, hasRegistry, registry, clock, nextId, lastStore, lastSearch,
                   lastTable, callVars, init>>

NextPool ==
    \/ (\E p \in Coroutines, op \in {"health_check", "get_statistics"} : SvcCall(p, op, Unset))
    \/ (\E p \in Coroutines : GetPool(p))
    \/ (\E p \in Coroutines : CreatePool(p))
    \/ (\E p \in Coroutines : Acquire(p))
    \/ (\E p \in Coroutines : GetStatistics(p))
    \/ (\E p \in Coroutines : HealthCheck(p))
SpecPool == Started /\ [][NextPool]_vars

NextSwitch ==
    \/ (\E p \in Coroutines, n \in TableNames : SvcCall(p, "switch_table", n))
    \/ (\E p \in Coroutines : GetPool(p))
    \/ (\E p \in Coroutines : CreatePool(p))
    \/ (\E p \in Coroutines : Acquire(p))
    \/ (\E p \in Coroutines : SwitchLook(p))
    \/ (\E p \in Coroutines : SwitchSet(p))
SpecSwitch == Started /\ [][NextSwitch]_vars

\* table management alone, with names of every kind the validation tells apart
Names ==
    { Embeddings, T1, <<"T", "1">>, Bad1a, <<"a", "-", "b">>, <<>>,
      <<"S","e","l","e","c","t">>, <<"t", "1", "\n">>, <<"s","e","l","e","c","t","\n">> }
NextNames ==
    \/ InitializeDatabase
    \/ (\E n \in Names : CreateEmbeddingTable(n))
    \/ (\E n \in Names : DeleteEmbeddingTable(n))
    \/ (\E n \in Names : SwitchTable(n))
SpecNames == Started /\ [][NextNames]_vars

(***************************************************************************)
(* Properties of store, batch_store and search.                            *)
(***************************************************************************)
RowsOf(name) == IF TableExists(name) THEN tables[name] ELSE {}

\* the last item of a batch that names the document_id of item i
IsLastFor(data, i) == \A j \in (i + 1)..Len(data) : data[j].document_id # data[i].document_id

ItemFails(item) == item.missing # "none" \/ Len(item.embedding) # EmbeddingDim

\* C6: a table holds at most one row per document_id, and after a successful store
\* or batch_store the one row of each stored document_id carries the content,
\* embedding and metadata of the latest call, with updated_at strictly greater
\* than the row had before the call.
C6_OneRowPerDocument ==
    /\ \A t \in DOMAIN tables : \A r1, r2 \in tables[t] :
          r1.document_id = r2.document_id => r1 = r2
    /\ (lastStore.kind \in {"store", "batch"} /\ lastStore.ok) =>
          \A i \in 1..Len(lastStore.recs) :
             LET a == lastStore.recs[i]
                 mine == { r \in RowsOf(Embeddings) : r.document_id = a.document_id }
             IN  /\ Cardinality(mine) = 1
                 /\ IsLastFor(lastStore.recs, i) =>
                       \A r \in mine :
                          /\ r.content = a.content
                          /\ r.embedding = a.embedding
                          /\ r.metadata = a.metadata
                          /\ \A old \in lastStore.before :
                                old.document_id = a.document_id =>
                                   /\ r.updated_at > old.updated_at
                                   /\ r.created_at = old.created_at

\* a store has just replaced the row of a document_id that held other content
C6_Witness ==
    /\ lastStore.kind = "store"
    /\ lastStore.ok
    /\ \E old \in lastStore.before :
          /\ old.document_id = lastStore.recs[1].document_id
          /\ old.content # lastStore.recs[1].content
    /\ Cardinality(RowsOf(Embeddings)) >= 2

\* C7: batch_store is all-or-nothing: when one item fails (a dict lacking a field,
\* a statement the table rejects) the call raises and the table is what it was
\* before the call; when none fails the call succeeds and every item's
\* document_id has its row, carrying the last item given for that document_id.
C7_BatchAllOrNothing ==
    lastStore.kind = "batch" =>
        LET data == lastStore.recs
            fails == \E i \in 1..Len(data) : ItemFails(data[i])
        IN  /\ fails => ~lastStore.ok /\ RowsOf(Embeddings) = lastStore.before
            /\ ~fails =>
                  /\ lastStore.ok
                  /\ \A i \in 1..Len(data) :
                        \E r \in RowsOf(Embeddings) :
                           /\ r.document_id = data[i].document_id
                           /\ IsLastFor(data, i) =>
                                 /\ r.content = data[i].content
                                 /\ r.embedding = data[i].embedding
                                 /\ r.metadata = data[i].metadata

\* a batch whose first item alone would have added a row, and whose second fails
C7_Witness ==
    /\ lastStore.kind = "batch"
    /\ Len(lastStore.recs) = 2
    /\ ~ItemFails(lastStore.recs[1])
    /\ ItemFails(lastStore.recs[2])
    /\ \A old \in lastStore.before : old.document_id # lastStore.recs[1].document_id
    /\ lastStore.before # {}

\* similarity s is strictly greater than the threshold num/den
StrictlyAbove(s, th) ==
    \/ th.num >= 0 /\ s.dot > 0 /\ th.den * th.den * s.dot * s.dot > th.num * th.num * s.n2
    \/ th.num < 0 /\ s.dot >= 0
    \/ th.num < 0 /\ s.dot < 0 /\ th.den * th.den * s.dot * s.dot < th.num * th.num * s.n2

MatchesAll(metadata, filters) ==
    \A f \in filters.kv : ~metadata.isnull /\ f \in metadata.kv

Returned(search) == { search.result[i].document_id : i \in 1..Len(search.result) }

C9_SearchFilters ==
    (lastSearch.done /\ lastSearch.ok) =>
        LET res == lastSearch.result
            f == lastSearch.filters
        IN  /\ (~f.isnull /\ f.kv # {}) =>
                  \A i \in 1..Len(res) : \A kv \in f.kv :
                     /\ ~res[i].metadata.isnull
                     /\ kv \in res[i].metadata.kv
            /\ (f.isnull \/ f.kv = {}) =>
                  \A r \in RowsOf(Embeddings) :
                     ( /\ StrictlyAbove(Similarity(r.embedding, lastSearch.query),
                                        lastSearch.threshold)
                       /\ r.document_id \notin Returned(lastSearch) ) =>
                        Len(res) = lastSearch.top_k

\* a two-key filter returned a row while a more similar row that matches only one
\* of the keys stayed out
C9_Witness ==
    /\ lastSearch.done
    /\ Cardinality(lastSearch.filters.kv) = 2
    /\ Len(lastSearch.result) = 1
    /\ \E r \in RowsOf(Embeddings) :
          /\ r.document_id \notin Returned(lastSearch)
          /\ ~r.metadata.isnull
          /\ r.metadata.kv \cap lastSearch.filters.kv # {}
          /\ ScoreLess(lastSearch.result[1].similarity_score,
                       Similarity(r.embedding, lastSearch.query))

(***************************************************************************)
(* Properties of the batch orchestrator.                                   *)
(***************************************************************************)
EmptyDocs(j) == { i \in 1..Len(documents[j]) : documents[j][i].content = "" }

\* C1: once get_job_status has returned a terminal status for a job, every later
\* call for that job returns that same status.
C1_TerminalStatusAbsorbing ==
    \A j \in DOMAIN observed :
        observed[j].first # "" => observed[j].status = observed[j].first

\* C2: when the task queue reports FAILURE for a job's task, get_job_status
\* returns status failed for that job.
C2_FailureSurfaced ==
    \A j \in DOMAIN observed :
        (observed[j].seen /\ observed[j].celery_status = "FAILURE") =>
            observed[j].status = "failed"

\* C3: a job cancelled before any worker started its task is reported cancelled:
\* by the time a call answers with the task at its end, some call has returned
\* status cancelled.
C3_CancelBeforeStart ==
    \A j \in DOMAIN observed :
        ( /\ trail[j].cancelledEarly
          /\ observed[j].seen
          /\ observed[j].celery_status \in ReadyStates ) =>
            observed[j].sawCancelled

C5_DocumentFailureIsolated ==
    \A j \in DOMAIN task :
        /\ task[j].result.exc \notin {"ProviderError", "StorageError"}
        /\ trail[j].raised # {} => task[j].state \in {"PROGRESS", "SUCCESS", "FAILURE", "REVOKED"}
        /\ (task[j].state = "PROGRESS" /\ trail[j].raised # {}) =>
              \A i \in trail[j].raised : worker[j].i > i
        /\ task[j].state = "SUCCESS" =>
              /\ trail[j].attempted = (1..Len(documents[j])) \ EmptyDocs(j)
              /\ task[j].result.status = "completed"

\* a finished job in which a document raised and a later document was stored
C5_Witness ==
    \E j \in DOMAIN task :
        /\ task[j].state = "SUCCESS"
        /\ \E i \in trail[j].raised, k \in trail[j].attempted \ trail[j].raised : k > i

\* C10: after switch_table(name) succeeded, a store or batch_store writes its rows
\* to table name and a search returns rows of table name.
C10_OperationsUseActiveTable ==
    current_table # Unset =>
        /\ (lastStore.kind \in {"store", "batch"} /\ lastStore.ok) =>
              \A i \in 1..Len(lastStore.recs) :
                 \E r \in RowsOf(current_table) :
                    /\ r.document_id = lastStore.recs[i].document_id
                    /\ r.updated_at = clock
        /\ (lastSearch.done /\ lastSearch.ok) =>
              \A i \in 1..Len(lastSearch.result) :
                 \E r \in RowsOf(current_table) :
                    r.document_id = lastSearch.result[i].document_id

(***************************************************************************)
(* Properties of table management.                                         *)
(***************************************************************************)
\* a name of letters, digits and underscores that does not start with a digit and
\* whose lower-cased form is not reserved
WellFormed(name) ==
    /\ Len(name) >= 1
    /\ \A i \in 1..Len(name) : IsLetter(name[i]) \/ IsDigit(name[i]) \/ name[i] = "_"
    /\ ~IsDigit(name[1])
    /\ Lower(name) \notin ReservedWords

\* the last table operation left tables, registry and active table as it found them
TablesUntouched ==
    /\ DOMAIN tables = lastTable.before.tables
    /\ registry = lastTable.before.registry
    /\ current_table = lastTable.before.current_table

\* C11: delete_table("embeddings") on an initialized store fails and removes
\* neither the default table nor its registry entry.
C11_DefaultTableUndeletable ==
    ( /\ lastTable.op = "delete"
      /\ lastTable.table_name = Embeddings
      /\ Embeddings \in lastTable.before.tables ) =>
        /\ ~lastTable.ok
        /\ TableExists(Embeddings)
        /\ registry = lastTable.before.registry

\* C12: create_table, delete_table and switch_table succeed only for a well-formed
\* name, and a call with any other name fails and has changed nothing.
C12_NameValidation ==
    lastTable.op \in {"create", "delete", "switch"} =>
        /\ lastTable.ok => WellFormed(lastTable.table_name)
        /\ ~WellFormed(lastTable.table_name) => (~lastTable.ok /\ TablesUntouched)

\* C18: create_table with an invalid name or the name of an existing table fails
\* and leaves tables and registry unchanged; a create_table that returns leaves
\* the table in place and exactly one registry entry for the name, carrying the
\* returned table_id.
C18_CreateTable ==
    lastTable.op = "create" =>
        LET name == lastTable.table_name
            entries == { e \in registry : e.table_name = name }
        IN  /\ (~WellFormed(name) \/ Identifier(name) \in lastTable.before.tables) =>
                  (~lastTable.ok /\ TablesUntouched)
            /\ lastTable.ok =>
                  /\ TableExists(Identifier(name))
                  /\ Cardinality(entries) = 1
                  /\ \A e \in entries : e.table_id = lastTable.table_id

(***************************************************************************)
(* Properties of the chunker.                                              *)
(***************************************************************************)
LastChars(s, k) == IF Len(s) <= k THEN s ELSE SubSeq(s, Len(s) - k + 1, Len(s))
StartsWith(s, prefix) == Len(prefix) <= Len(s) /\ SubSeq(s, 1, Len(prefix)) = prefix

\* C13: with overlap_chars = k > 0, whenever chunk_text returns two or more
\* chunks, each chunk[i+1] starts with the last k characters of chunk[i].
C13_ChunkOverlap ==
    (lastCall.kind = "chunk_text" /\ lastCall.chunker.overlap_chars > 0) =>
        \A i \in 1..(Len(lastCall.chunks) - 1) :
            StartsWith(lastCall.chunks[i + 1],
                       LastChars(lastCall.chunks[i], lastCall.chunker.overlap_chars))

\* the number of chunks emitted for the documents before document d
RECURSIVE ChunksBefore(_, _, _)
ChunksBefore(c, docs, d) ==
    IF d <= 1 THEN 0
    ELSE ChunksBefore(c, docs, d - 1) + Len(ChunkText(c, docs[d - 1].content))

\* C14: chunk_documents emits the chunks of each document in document order; the
\* n chunks of a document carry chunk_index 0..n-1 in emission order and
\* num_chunks = n, keep every key of the parent metadata, and carry the parent's
\* source and mime_type.
C14_ChunkDocuments ==
    lastCall.kind = "chunk_documents" =>
        LET c == lastCall.chunker
            docs == lastCall.documents
            out == lastCall.chunked
        IN  /\ Len(out) = ChunksBefore(c, docs, Len(docs) + 1)
            /\ \A d \in 1..Len(docs) :
                  LET texts == ChunkText(c, docs[d].content)
                      base == ChunksBefore(c, docs, d)
                  IN  \A i \in 1..Len(texts) :
                         LET e == out[base + i]
                             keys == { kv[1] : kv \in e.metadata.kv }
                                        \cup {"chunk_index", "num_chunks"}
                         IN  /\ e.content = texts[i]
                             /\ e.metadata.chunk_index = i - 1
                             /\ e.metadata.num_chunks = Len(texts)
                             /\ \A kv \in docs[d].metadata.kv : kv[1] \in keys
                             /\ \A kv \in docs[d].metadata.kv :
                                   kv[1] \notin {"chunk_index", "num_chunks"} =>
                                       kv \in e.metadata.kv
                             /\ e.source = docs[d].source
                             /\ e.mime_type = docs[d].mime_type

\* two documents, the first cut into two or more chunks, the second with metadata
\* that already has a chunk_index
C14_Witness ==
    /\ lastCall.kind = "chunk_documents"
    /\ Len(lastCall.documents) = 2
    /\ Len(ChunkText(lastCall.chunker, lastCall.documents[1].content)) >= 2
    /\ lastCall.documents[2].metadata = MetaChunk
    /\ lastCall.documents[1].source # lastCall.documents[2].source

\* C15: list_jobs(limit) returns the limit most recently created jobs among all
\* job records (all of them when there are fewer), newest first.
C15_ListJobsMostRecent ==
    lastCall.kind = "list_jobs" =>
        LET result == lastCall.result
            listed == { result[i].id : i \in 1..Len(result) }
        IN  /\ Len(result) = IF lastCall.limit < Cardinality(DOMAIN jobs)
                             THEN lastCall.limit ELSE Cardinality(DOMAIN jobs)
            /\ \A i \in 1..(Len(result) - 1) : result[i].created_at >= result[i + 1].created_at
            /\ \A j \in DOMAIN jobs \ listed :
                  \A i \in 1..Len(result) : jobs[j].created_at <= result[i].created_at

\* C16: cancel_job returns True exactly when it wrote status cancelled onto the
\* job record and False otherwise, whatever fails; when it returns False the
\* records are what they were, and for an id without a record none is created.
C16_CancelJobBoolean ==
    lastCall.kind = "cancel_job" =>
        /\ lastCall.result \in BOOLEAN
        /\ lastCall.result =>
              /\ lastCall.batch_id \in DOMAIN lastCall.before
              /\ jobs = [lastCall.before EXCEPT ![lastCall.batch_id].status = "cancelled"]
        /\ ~lastCall.result => jobs = lastCall.before
        /\ lastCall.batch_id \notin DOMAIN lastCall.before =>
              (~lastCall.result /\ lastCall.batch_id \notin DOMAIN jobs)
        /\ (lastCall.batch_id \in DOMAIN lastCall.before /\ lastCall.fault = "none") =>
              lastCall.result

\* a cancel whose write failed after the revoke was sent, on a job that was pending
C16_Witness ==
    /\ lastCall.kind = "cancel_job"
    /\ lastCall.fault = "hset"
    /\ lastCall.batch_id \in revoked
    /\ ~lastCall.result
    /\ jobs[lastCall.batch_id].status = "pending"
    /\ Cardinality(DOMAIN jobs) = 2

\* C17: within one job the worker handles the documents one at a time in
\* submission order, and the processed and failed counters of successive progress
\* updates never decrease.
C17_SequentialMonotone ==
    \A j \in DOMAIN trail :
        LET order == trail[j].order
            updates == trail[j].updates
        IN  /\ \A k \in 1..Len(order) : order[k] = k
            /\ Len(order) <= Len(documents[j])
            /\ worker[j].i \in {0, Len(order) + 1}
            /\ \A a, b \in 1..Len(updates) :
                  a < b => /\ updates[a].processed <= updates[b].processed
                           /\ updates[a].failed <= updates[b].failed
                           /\ updates[a].current < updates[b].current

\* three documents handled, two progress updates with a failure between them
C17_Witness ==
    \E j \in DOMAIN trail :
        /\ Len(trail[j].order) = 3
        /\ Len(trail[j].updates) = 2
        /\ trail[j].updates[1].failed < trail[j].updates[2].failed

\* the rows a job's documents have left in the default table, without their
\* timestamps
RowsLeftBy(j, i) ==
    { [document_id |-> r.document_id, content |-> r.content, embedding |-> r.embedding,
       metadata |-> r.metadata] :
          r \in { r \in RowsOf(Embeddings) : <<i, r.document_id>> \in trail[j].wrote } }

\* C20: processing a document of a job a second time leaves the same rows as
\* processing it once: whatever the number of deliveries, a document that was
\* stored has left one row.
C20_ReprocessingIdempotent ==
    \A j \in DOMAIN trail :
        \A i \in 1..Len(documents[j]) : Cardinality(RowsLeftBy(j, i)) <= 1

\* C19: initialize, called any number of times one after another or at the same
\* time, never fails because an object already exists, and once a call has
\* returned there is the default table and exactly one registry entry for it,
\* with the table_id the first insert wrote.
C19_InitializeIdempotent ==
    /\ init.raised = {}
    /\ init.done > 0 =>
          /\ TableExists(Embeddings)
          /\ \E e \in registry :
                /\ e.table_name = Embeddings
                /\ e.table_id = init.first_id
                /\ \A f \in registry : f.table_name = Embeddings => f = e

(***************************************************************************)
(* C21: two searches with the same arguments, with nothing else called on  *)
(* the store in between, return the same sequence of results, rows of      *)
(* equal similarity in the same relative order.                            *)
(***************************************************************************)
C21_SearchRepeatable ==
    (lastSearch.done /\ lastSearch.ok) => lastSearch.result = lastSearch.earlier

(***************************************************************************)
(* C22: once initialize_database has run the instance has an active table: *)
(* current_table is "embeddings" until a switch_table changes it, and the  *)
(* table a switch had made active stays active.                            *)
(***************************************************************************)
C22_OneActiveTable ==
    (lastTable.op = "initialize" /\ lastTable.ok)
        => current_table = IF lastTable.before.current_table = Unset
                           THEN Embeddings
                           ELSE lastTable.before.current_table

(***************************************************************************)
(* C24: every document the loop has finished with, stored, skipped or      *)
(* failed, was followed by a progress update before the next document was  *)
(* taken: there are as many updates as documents done, and the latest      *)
(* carries the index of the latest document and the counters as they are.  *)
(***************************************************************************)
C24_CheckpointPerDocument ==
    \A j \in DOMAIN jobs :
        /\ Len(trail[j].updates) = Len(trail[j].order)
        /\ Len(trail[j].order) > 0 =>
              LET last == trail[j].updates[Len(trail[j].updates)]
              IN  /\ last.current = trail[j].order[Len(trail[j].order)]
                  /\ last.processed = worker[j].processed_count
                  /\ last.failed = worker[j].failed_count

(***************************************************************************)
(* C26: no chunk returned by chunk_text is longer than max_chars, whether  *)
(* it begins with an overlap tail or is a hard-split piece of a paragraph  *)
(* longer than max_chars.                                                  *)
(***************************************************************************)
C26_ChunkWithinMaxChars ==
    lastCall.kind = "chunk_text" =>
        \A i \in 1..Len(lastCall.chunks) :
            Len(lastCall.chunks[i]) <= lastCall.chunker.max_chars

(***************************************************************************)
(* C27: chunk_text returns at least one chunk for every text, so           *)
(* chunk_documents returns at least as many entries as it was given        *)
(* documents.                                                              *)
(***************************************************************************)
C27_AtLeastOneChunk ==
    /\ lastCall.kind = "chunk_text" => Len(lastCall.chunks) >= 1
    /\ lastCall.kind = "chunk_documents" =>
          Len(lastCall.chunked) >= Len(lastCall.documents)

(***************************************************************************)
(* C28: a create_table or delete_table call, successful or not, that found *)
(* the registry naming exactly the existing embedding tables leaves it so, *)
(* and leaves the registry table itself in place.                          *)
(***************************************************************************)
C28_RegistryMatchesTables ==
    ( /\ lastTable.op \in {"create", "delete"}
      /\ lastTable.before.registry # {}
      /\ { e.table_name : e \in lastTable.before.registry } = lastTable.before.tables ) =>
        /\ hasRegistry
        /\ { e.table_name : e \in registry } = DOMAIN tables

(***************************************************************************)
(* C23: the (previous, current) pairs returned by the successful           *)
(* switch_table calls, in the order their changes took effect, form one    *)
(* chain from the default table to the current active table; a failed call *)
(* adds no link and changes nothing.                                       *)
(***************************************************************************)
C23_SwitchAtomic ==
    /\ svc.chain = <<>> => current_table = Unset
    /\ svc.chain # <<>> =>
          /\ svc.chain[1].previous = Embeddings
          /\ svc.chain[Len(svc.chain)].current = current_table
          /\ \A i \in 1..(Len(svc.chain) - 1) :
                svc.chain[i + 1].previous = svc.chain[i].current

\* two switch_table calls in flight at once: one has looked its table up and found
\* it, and the active table has since been changed by another call
C23_Witness ==
    /\ Len(svc.chain) >= 2
    /\ \E p \in Coroutines :
          /\ svc.pc[p] = "idle" /\ svc.op[p] = "switch_table" /\ svc.exists[p]
          /\ PreviousTableAtLookup(p) # svc.chain[Len(svc.chain)].previous
          /\ svc.chain[Len(svc.chain)].current = svc.table_name[p]

(***************************************************************************)
(* C25: a coroutine inside a public method holds at most one connection,   *)
(* and none once the method has returned or raised.                        *)
(***************************************************************************)
C25_OneConnectionPerCall ==
    \A p \in Coroutines :
        /\ Len(svc.held[p]) <= 1
        /\ svc.pc[p] = "idle" => svc.held[p] = <<>>

(***************************************************************************)
(* C29: the instance creates at most one connection pool, however its      *)
(* first calls interleave.                                                 *)
(***************************************************************************)
C29_OnePool == svc.created <= 1

(***************************************************************************)
(* C30: the connections of a pool are never all held by calls that each    *)
(* wait to acquire one more.                                               *)
(***************************************************************************)
C30_NoPoolDeadlock ==
    ~\E k \in 1..MaxSize :
        LET holders == { p \in Coroutines : \E i \in 1..Len(svc.held[p]) : svc.held[p][i] = k }
        IN  /\ Cardinality({ h \in Coroutines \X (1..2) :
                               /\ h[2] <= Len(svc.held[h[1]])
                               /\ svc.held[h[1]][h[2]] = k }) = MaxSize
            /\ \A p \in holders : svc.pc[p] = "nested_acquire" /\ svc.uses[p] = k

====
